---- MODULE Spec2Model ----
(***************************************************************************)
(* Model of eol.py: the EOL checker (product cache, version matcher,       *)
(* status classifier) and the inventory batch (load, check, save).         *)
(*                                                                         *)
(* Python strings are TLA+ strings; a Python dict is a function from its   *)
(* keys to Python values; a Python value of varying type is a tagged       *)
(* record (PyBool, PyStr, PyInt, PyNone).                                  *)
(***************************************************************************)
EXTENDS Integers, Sequences, FiniteSets, TLC

VARIABLES
    pc,          \* position of the program
    all_cycles,  \* find_best_match: the payload get_product_info returned
    version,     \* find_best_match: the version looked for
    info,        \* get_eol_status: the record find_best_match returned
    today,       \* get_eol_status: datetime.now()
    status,      \* get_eol_status: the dict it returns
    inventory,   \* SoftwareInventory.inventory
    cache,       \* EOLChecker.cache
    requests,    \* the requests.get calls made so far, per URL key
    results,     \* check_all_eol_status: results
    output       \* the output file save_results writes

vars == <<pc, all_cycles, version, info, today, status,
          inventory, cache, requests, results, output>>

----------------------------------------------------------------------------
(* Python values *)

PyNone == [t |-> "none", b |-> FALSE, s |-> "", n |-> 0]
PyBool(x) == [t |-> "bool", b |-> x, s |-> "", n |-> 0]
PyStr(x) == [t |-> "str", b |-> FALSE, s |-> x, n |-> 0]
PyInt(x) == [t |-> "int", b |-> FALSE, s |-> "", n |-> x]

EmptyDict == [k \in {} |-> PyNone]

\* dict.get(key, default)
Get(d, key, default) == IF key \in DOMAIN d THEN d[key] ELSE default

\* Optional[Dict]
NoneDict == [some |-> FALSE, val |-> EmptyDict]
SomeDict(d) == [some |-> TRUE, val |-> d]

\* truth value of an Optional[Dict]: None and {} are false
Truthy(o) == o.some /\ DOMAIN o.val # {}

----------------------------------------------------------------------------
(* Strings *)

Ch(s, i) == SubSeq(s, i, i)

\* str.startswith
StartsWith(s, prefix) ==
    /\ Len(prefix) <= Len(s)
    /\ SubSeq(s, 1, Len(prefix)) = prefix

DigitChars == <<"0", "1", "2", "3", "4", "5", "6", "7", "8", "9">>

IsDigit(c) == \E i \in 1..10 : DigitChars[i] = c

DigitVal(c) == (CHOOSE i \in 1..10 : DigitChars[i] = c) - 1

RECURSIVE NatToStr(_)
NatToStr(n) ==
    IF n < 10 THEN DigitChars[n + 1]
    ELSE NatToStr(n \div 10) \o DigitChars[(n % 10) + 1]

\* str(value)
Str(v) ==
    CASE v.t = "str" -> v.s
      [] v.t = "int" -> IF v.n < 0 THEN "-" \o NatToStr(-v.n) ELSE NatToStr(v.n)
      [] v.t = "bool" -> IF v.b THEN "True" ELSE "False"
      [] OTHER -> "None"

----------------------------------------------------------------------------
(* Dates: datetime.strptime(s, "%Y-%m-%d"), datetime comparison, timedelta.days *)

\* How many instants of a day the model tells apart; instant 0 is midnight.
TicksPerDay == 2

IsLeap(y) == (y % 4 = 0) /\ ((y % 100 # 0) \/ (y % 400 = 0))

DaysInMonth(y, m) ==
    IF m = 2 THEN (IF IsLeap(y) THEN 29 ELSE 28)
    ELSE IF m \in {4, 6, 9, 11} THEN 30 ELSE 31

RECURSIVE DaysBeforeMonth(_, _)
DaysBeforeMonth(y, m) ==
    IF m = 1 THEN 0 ELSE DaysBeforeMonth(y, m - 1) + DaysInMonth(y, m - 1)

DaysBeforeYear(y) ==
    ((y - 1) * 365) + ((y - 1) \div 4) - ((y - 1) \div 100) + ((y - 1) \div 400)

\* date.toordinal(): 0001-01-01 is day 1
ToOrdinal(y, m, d) == DaysBeforeYear(y) + DaysBeforeMonth(y, m) + d

\* %m : 1[0-2]|0[1-9]|[1-9]
IsMonthTok(s) ==
    \/ Len(s) = 1 /\ IsDigit(s) /\ s # "0"
    \/ Len(s) = 2 /\ Ch(s, 1) = "1" /\ Ch(s, 2) \in {"0", "1", "2"}
    \/ Len(s) = 2 /\ Ch(s, 1) = "0" /\ IsDigit(Ch(s, 2)) /\ Ch(s, 2) # "0"

\* %d : 3[0-1]|[1-2]\d|0[1-9]|[1-9]| [1-9]
IsDayTok(s) ==
    \/ Len(s) = 1 /\ IsDigit(s) /\ s # "0"
    \/ Len(s) = 2 /\ Ch(s, 1) = "3" /\ Ch(s, 2) \in {"0", "1"}
    \/ Len(s) = 2 /\ Ch(s, 1) \in {"1", "2"} /\ IsDigit(Ch(s, 2))
    \/ Len(s) = 2 /\ Ch(s, 1) \in {"0", " "} /\ IsDigit(Ch(s, 2)) /\ Ch(s, 2) # "0"

\* %Y : \d\d\d\d
IsYearTok(s) == Len(s) = 4 /\ \A i \in 1..4 : IsDigit(Ch(s, i))

RECURSIVE TokVal(_)
TokVal(s) ==
    IF Len(s) = 0 THEN 0
    ELSE (TokVal(SubSeq(s, 1, Len(s) - 1)) * 10)
         + (IF Ch(s, Len(s)) = " " THEN 0 ELSE DigitVal(Ch(s, Len(s))))

\* The whole string is year "-" month "-" day, the month lm and the day ld long.
MatchesFormat(s, lm, ld) ==
    /\ Len(s) = 6 + lm + ld
    /\ IsYearTok(SubSeq(s, 1, 4))
    /\ Ch(s, 5) = "-"
    /\ IsMonthTok(SubSeq(s, 6, 5 + lm))
    /\ Ch(s, 6 + lm) = "-"
    /\ IsDayTok(SubSeq(s, 7 + lm, 6 + lm + ld))

ParseFailed == [ok |-> FALSE, day |-> 0, tick |-> 0]

\* datetime.strptime(s, "%Y-%m-%d"): ok = FALSE is ValueError; a parsed date
\* is midnight of its day.
Strptime(s) ==
    IF \E lm \in {1, 2}, ld \in {1, 2} : MatchesFormat(s, lm, ld)
    THEN LET lm == CHOOSE l \in {1, 2} : \E ld \in {1, 2} : MatchesFormat(s, l, ld)
             ld == Len(s) - 6 - lm
             y == TokVal(SubSeq(s, 1, 4))
             m == TokVal(SubSeq(s, 6, 5 + lm))
             d == TokVal(SubSeq(s, 7 + lm, 6 + lm + ld))
         IN  IF y >= 1 /\ d <= DaysInMonth(y, m)
             THEN [ok |-> TRUE, day |-> ToOrdinal(y, m, d), tick |-> 0]
             ELSE ParseFailed
    ELSE ParseFailed

\* datetime < datetime
Before(a, b) == a.day < b.day \/ (a.day = b.day /\ a.tick < b.tick)

\* (a - b).days : the floor of the difference in days
DaysBetween(a, b) == (a.day - b.day) - (IF a.tick < b.tick THEN 1 ELSE 0)

----------------------------------------------------------------------------
(* EOLChecker.find_best_match *)

\* What get_product_info returns: a JSON list of records, another JSON value,
\* or None.
ListPayload(items) == [kind |-> "list", items |-> items]
ObjectPayload == [kind |-> "object", items |-> <<>>]
NonePayload == [kind |-> "none", items |-> <<>>]

\* not all_cycles or not isinstance(all_cycles, list)
NoCycles(payload) == payload.kind # "list" \/ Len(payload.items) = 0

CycleVersion(cycle) == Str(Get(cycle, "cycle", PyStr("")))

IsExactMatch(cycle, v) == CycleVersion(cycle) = v

IsPrefixMatch_NoDot(cycle, v) ==
    \/ StartsWith(v, CycleVersion(cycle))
    \/ StartsWith(CycleVersion(cycle), v)

IsPrefixMatch(cycle, v) ==
    \/ StartsWith(v, CycleVersion(cycle) \o ".")
    \/ StartsWith(CycleVersion(cycle), v \o ".")

\* The first record of the list that is an exact or a prefix match.
FindBestMatch_OneLoop(payload, v) ==
    IF NoCycles(payload) THEN NoneDict
    ELSE LET L == payload.items
             hit(i) == IsExactMatch(L[i], v) \/ IsPrefixMatch(L[i], v)
         IN  IF \E i \in 1..Len(L) : hit(i)
             THEN SomeDict(L[CHOOSE i \in 1..Len(L) :
                                hit(i) /\ \A j \in 1..(i - 1) : ~hit(j)])
             ELSE NoneDict

FindBestMatch(payload, v) ==
    IF NoCycles(payload) THEN NoneDict
    ELSE LET L == payload.items
             exact(i) == IsExactMatch(L[i], v)
             prefix(i) == IsPrefixMatch(L[i], v)
         IN  IF \E i \in 1..Len(L) : exact(i)
             THEN SomeDict(L[CHOOSE i \in 1..Len(L) :
                                exact(i) /\ \A j \in 1..(i - 1) : ~exact(j)])
             ELSE IF \E i \in 1..Len(L) : prefix(i)
             THEN SomeDict(L[CHOOSE i \in 1..Len(L) :
                                prefix(i) /\ \A j \in 1..(i - 1) : ~prefix(j)])
             ELSE NoneDict

----------------------------------------------------------------------------
(* EOLChecker.get_eol_status *)

SoonDays == 90
ApproachingDays == 180

UnknownStatus ==
    [eol_date |-> PyStr("Unknown"),
     is_eol |-> PyStr("Unknown"),
     support_status |-> PyStr("Unknown"),
     days_until_eol |-> PyNone,
     lts |-> PyBool(FALSE),
     latest_version |-> PyStr("Unknown")]

IsTrue(v) == v.t = "bool" /\ v.b
IsFalse(v) == v.t = "bool" /\ ~v.b

\* The eol rules, with a date that does not parse reported as end of life.
EolRules_ParseErrorIsEol(eol_value, now) ==
    IF IsTrue(eol_value)
    THEN [is_eol |-> TRUE, eol_date |-> "EOL", days_until_eol |-> PyInt(0)]
    ELSE IF IsFalse(eol_value)
    THEN [is_eol |-> FALSE, eol_date |-> "No EOL date set", days_until_eol |-> PyNone]
    ELSE IF eol_value.t = "str"
    THEN LET eol_date_obj == Strptime(eol_value.s)
         IN  IF ~eol_date_obj.ok
             THEN [is_eol |-> TRUE, eol_date |-> eol_value.s, days_until_eol |-> PyInt(0)]
             ELSE IF Before(eol_date_obj, now)
             THEN [is_eol |-> TRUE, eol_date |-> eol_value.s, days_until_eol |-> PyInt(0)]
             ELSE [is_eol |-> FALSE, eol_date |-> eol_value.s,
                   days_until_eol |-> PyInt(DaysBetween(eol_date_obj, now))]
    ELSE [is_eol |-> FALSE, eol_date |-> "Unknown", days_until_eol |-> PyNone]

\* The eol rules with a past date keeping its (negative) day count.
EolRules_PastKeepsDays(eol_value, now) ==
    IF IsTrue(eol_value)
    THEN [is_eol |-> TRUE, eol_date |-> "EOL", days_until_eol |-> PyInt(0)]
    ELSE IF IsFalse(eol_value)
    THEN [is_eol |-> FALSE, eol_date |-> "No EOL date set", days_until_eol |-> PyNone]
    ELSE IF eol_value.t = "str"
    THEN LET eol_date_obj == Strptime(eol_value.s)
         IN  IF ~eol_date_obj.ok
             THEN [is_eol |-> FALSE, eol_date |-> eol_value.s, days_until_eol |-> PyNone]
             ELSE [is_eol |-> Before(eol_date_obj, now), eol_date |-> eol_value.s,
                   days_until_eol |-> PyInt(DaysBetween(eol_date_obj, now))]
    ELSE [is_eol |-> FALSE, eol_date |-> "Unknown", days_until_eol |-> PyNone]

\* is_eol, eol_date and days_until_eol as the eol value decides them
EolRules(eol_value, now) ==
    IF IsTrue(eol_value)
    THEN [is_eol |-> TRUE, eol_date |-> "EOL", days_until_eol |-> PyInt(0)]
    ELSE IF IsFalse(eol_value)
    THEN [is_eol |-> FALSE, eol_date |-> "No EOL date set", days_until_eol |-> PyNone]
    ELSE IF eol_value.t = "str"
    THEN LET eol_date_obj == Strptime(eol_value.s)
         IN  IF ~eol_date_obj.ok
             THEN [is_eol |-> FALSE, eol_date |-> eol_value.s, days_until_eol |-> PyNone]
             ELSE IF Before(eol_date_obj, now)
             THEN [is_eol |-> TRUE, eol_date |-> eol_value.s, days_until_eol |-> PyInt(0)]
             ELSE [is_eol |-> FALSE, eol_date |-> eol_value.s,
                   days_until_eol |-> PyInt(DaysBetween(eol_date_obj, now))]
    ELSE [is_eol |-> FALSE, eol_date |-> "Unknown", days_until_eol |-> PyNone]

\* The label with the 90-day boundary counted as soon.
SupportStatus_Inclusive(is_eol, days_until_eol) ==
    IF is_eol THEN "End of Life"
    ELSE IF days_until_eol.t # "none"
    THEN IF days_until_eol.n <= SoonDays THEN "EOL Soon (<90 days)"
         ELSE IF days_until_eol.n < ApproachingDays THEN "EOL Approaching (<6 months)"
         ELSE "Actively Supported"
    ELSE "Actively Supported"

SupportStatus(is_eol, days_until_eol) ==
    IF is_eol THEN "End of Life"
    ELSE IF days_until_eol.t # "none"
    THEN IF days_until_eol.n < SoonDays THEN "EOL Soon (<90 days)"
         ELSE IF days_until_eol.n < ApproachingDays THEN "EOL Approaching (<6 months)"
         ELSE "Actively Supported"
    ELSE "Actively Supported"

\* The override relabelling only: is_eol and days_until_eol kept as computed.
EndOfSupport_LabelOnly(record, r) ==
    [eol_date |-> PyStr(r.eol_date),
     is_eol |-> PyBool(r.is_eol),
     support_status |-> PyStr("End of Support"),
     days_until_eol |-> r.days_until_eol,
     lts |-> Get(record, "lts", PyBool(FALSE)),
     latest_version |-> Get(record, "latest", PyStr("Unknown"))]

\* The dict returned when support is False
EndOfSupport(record, r) ==
    [eol_date |-> PyStr(r.eol_date),
     is_eol |-> PyBool(TRUE),
     support_status |-> PyStr("End of Support"),
     days_until_eol |-> PyInt(0),
     lts |-> Get(record, "lts", PyBool(FALSE)),
     latest_version |-> Get(record, "latest", PyStr("Unknown"))]

\* The body of get_eol_status from the record find_best_match returned
EolStatus(match, now) ==
    IF ~Truthy(match) THEN UnknownStatus
    ELSE LET record == match.val
             eol_value == Get(record, "eol", PyNone)
             support_value == Get(record, "support", PyNone)
             r == EolRules(eol_value, now)
         IN  IF IsFalse(support_value) THEN EndOfSupport(record, r)
             ELSE [eol_date |-> PyStr(r.eol_date),
                   is_eol |-> PyBool(r.is_eol),
                   support_status |-> PyStr(SupportStatus(r.is_eol, r.days_until_eol)),
                   days_until_eol |-> r.days_until_eol,
                   lts |-> Get(record, "lts", PyBool(FALSE)),
                   latest_version |-> Get(record, "latest", PyStr("Unknown"))]

----------------------------------------------------------------------------
(* EOLChecker.get_product_info *)

EmptyCache == [k \in {} |-> NonePayload]

\* f"{product}:{version}" if version else product ; "" stands for no version
CacheKey(product, ver) == IF ver # "" THEN product \o ":" \o ver ELSE product

\* What requests.get and response.json() can do: a 200 with a JSON value,
\* a 200 whose body is not JSON (response.json() raises JSONDecodeError, a
\* RequestException), a 404, another status, a RequestException.
Outcome(kind, data) == [kind |-> kind, data |-> data]

\* The value get_product_info returns after a request
FetchResult(outcome) == IF outcome.kind = "ok" THEN outcome.data ELSE NonePayload

\* The cache left as it was, whatever the response.
CacheAfter_NoWrite(c, key, outcome) == c

\* self.cache[cache_key] = data, on a 200 only
CacheAfter(c, key, outcome) ==
    IF outcome.kind = "ok"
    THEN [k \in DOMAIN c \cup {key} |-> IF k = key THEN outcome.data ELSE c[k]]
    ELSE c

----------------------------------------------------------------------------
(* SoftwareInventory *)

LowerCase == "abcdefghijklmnopqrstuvwxyz"
UpperCase == "ABCDEFGHIJKLMNOPQRSTUVWXYZ"

UpperIndex == [c \in {Ch(UpperCase, i) : i \in 1..Len(UpperCase)} |->
                  CHOOSE i \in 1..Len(UpperCase) : Ch(UpperCase, i) = c]

LowerCh(c) == IF c \in DOMAIN UpperIndex THEN Ch(LowerCase, UpperIndex[c]) ELSE c

\* str.lower
RECURSIVE Lower(_)
Lower(s) == IF Len(s) = 0 THEN "" ELSE LowerCh(Ch(s, 1)) \o Lower(Tail(s))

IsSpace(c) == c \in {" ", "\t", "\n", "\r"}

RECURSIVE LStrip(_)
LStrip(s) == IF Len(s) > 0 /\ IsSpace(Ch(s, 1)) THEN LStrip(Tail(s)) ELSE s

RECURSIVE RStrip(_)
RStrip(s) ==
    IF Len(s) > 0 /\ IsSpace(Ch(s, Len(s)))
    THEN RStrip(SubSeq(s, 1, Len(s) - 1))
    ELSE s

\* str.strip
Strip(s) == RStrip(LStrip(s))

\* {**a, **b}
Merge(a, b) ==
    [k \in DOMAIN a \cup DOMAIN b |-> IF k \in DOMAIN b THEN b[k] ELSE a[k]]

\* item.get("product", "").lower().strip()
ItemProduct(item) == Strip(Lower(Get(item, "product", PyStr("")).s))

\* item.get("version", "").strip()
ItemVersion(item) == Strip(Get(item, "version", PyStr("")).s)

\* save_results: fieldnames
FieldNames ==
    <<"product", "version", "system", "criticality", "support_status",
      "eol_date", "is_eol", "days_until_eol", "lts", "latest_version">>

FieldSet == {FieldNames[i] : i \in 1..Len(FieldNames)}

\* csv.writer's text of a value: None is the empty field, the rest str(value)
CsvField(v) == IF v.t = "none" THEN "" ELSE Str(v)

\* DictWriter._dict_to_list: raises ValueError for a key not in fieldnames
HasWrongFields(rowdict) == ~(DOMAIN rowdict \subseteq FieldSet)

DictToList(rowdict) ==
    [i \in 1..Len(FieldNames) |-> CsvField(Get(rowdict, FieldNames[i], PyStr("")))]

NoFile == [state |-> "absent", header |-> <<>>, rows |-> <<>>]

\* The file after writeheader and writerows: writerows stops at the first row
\* that raises, with the rows before it written.
WriteRows(rows) ==
    LET bad == {i \in 1..Len(rows) : HasWrongFields(rows[i])}
        n == IF bad = {} THEN Len(rows)
             ELSE (CHOOSE i \in bad : \A j \in bad : i <= j) - 1
    IN  [state |-> IF bad = {} THEN "written" ELSE "error",
         header |-> FieldNames,
         rows |-> [i \in 1..n |-> DictToList(rows[i])]]

----------------------------------------------------------------------------
(* Inputs *)

MaxCycles == 2
MaxRows == 2

SeqsUpTo(S, n) == UNION {[1..k -> S] : k \in 0..n}

\* A key left out of a record
Absent == [t |-> "absent", b |-> FALSE, s |-> "", n |-> 0]

Field(key, v) == IF v = Absent THEN EmptyDict ELSE (key :> v)

\* Release cycles as the API lists them: cycle is a string or a number
CycleValues ==
    {PyStr("3"), PyStr("3.1"), PyStr("3.10"), PyStr("3.1.2"),
     PyInt(12), PyStr("12.4"), PyStr("120"), Absent}

MatchRecords ==
    {Field("cycle", c) @@ Field("lts", PyBool(FALSE)) : c \in CycleValues}
    \cup {Field("cycle", PyStr("3.1")) @@ Field("lts", PyBool(TRUE))}

MatchVersions == {"3.1", "3.10", "3", "12", "120", "3.1.2", ""}

MatchPayloads ==
    {ListPayload(L) : L \in SeqsUpTo(MatchRecords, MaxCycles)}
    \cup {ObjectPayload, NonePayload}

\* The current instants: midnight and later instants of 2025-06-15
BaseDay == ToOrdinal(2025, 6, 15)

Instants == {[ok |-> TRUE, day |-> BaseDay, tick |-> k] : k \in 0..(TicksPerDay - 1)}

ValidDates ==
    {"2020-01-01", "2025-06-14", "2025-06-15", "2025-06-16", "2025-6-16",
     "2025-09-12", "2025-09-13", "2025-09-14", "2025-12-11", "2025-12-12",
     "2025-12-13", "2099-01-01"}

MalformedDates ==
    {"2025-02-30", "2025-13-01", "0000-01-01", "June 2025", "2025/06/15",
     "2025-06-16 ", ""}

EolValues ==
    {Absent, PyNone, PyBool(TRUE), PyBool(FALSE)}
    \cup {PyStr(s) : s \in ValidDates \cup MalformedDates}

SupportValues == {Absent, PyBool(FALSE), PyBool(TRUE), PyStr("2024-01-01")}

ClassifyRecords ==
    {Field("cycle", PyStr("3.9")) @@ Field("eol", e) @@ Field("support", s)
        @@ Field("lts", l) @@ Field("latest", IF l = Absent THEN Absent ELSE PyStr("3.9.18")) :
        e \in EolValues, s \in SupportValues, l \in {Absent, PyBool(TRUE)}}

ClassifyInfos ==
    {SomeDict(r) : r \in ClassifyRecords} \cup {NoneDict, SomeDict(EmptyDict)}

\* What the API answers for a product
PythonCycles ==
    ListPayload(<<
        Field("cycle", PyStr("3.10")) @@ Field("eol", PyStr("2026-10-31"))
            @@ Field("latest", PyStr("3.10.18")),
        Field("cycle", PyStr("3.9")) @@ Field("eol", PyStr("2025-10-31"))
            @@ Field("latest", PyStr("3.9.23")) @@ Field("lts", PyBool(FALSE)) >>)

Outcomes ==
    {Outcome("ok", d) : d \in {PythonCycles, ListPayload(<<>>), ObjectPayload, NonePayload}}
    \cup {Outcome(k, NonePayload) :
            k \in {"bad_json", "not_found", "http_error", "network_error"}}

\* The inventory file: its header, and the fields of each of its lines. A line
\* may hold fewer fields than the header has columns.
Headers ==
    {<<"product", "version", "system", "criticality">>,
     <<"product", "version", "system", "criticality", "owner">>}

FullLines ==
    {<<"python", "3.9", "srv1", "High", "ops">>,
     <<" Python ", "3.9.1 ", "srv1", "High", "ops">>,
     <<"nodejs", "16", "srv1", "High", "ops">>}

Lines(header) == {SubSeq(l, 1, Len(header)) : l \in FullLines} \cup {<<"python">>}

\* A row of csv.DictReader: a column the line has no field for is None
DictReaderRow(header, fields) ==
    [c \in {header[i] : i \in 1..Len(header)} |->
        LET i == CHOOSE k \in 1..Len(header) : header[k] = c
        IN  IF i <= Len(fields) THEN PyStr(fields[i]) ELSE PyNone]

\* list(csv.DictReader(f))
Inventories ==
    UNION {{[i \in 1..Len(lines) |-> DictReaderRow(header, lines[i])] :
                lines \in SeqsUpTo(Lines(header), MaxRows)} :
           header \in Headers}

SampleData ==
    LET row(p, v, s, c) ==
            Field("product", PyStr(p)) @@ Field("version", PyStr(v))
                @@ Field("system", PyStr(s)) @@ Field("criticality", PyStr(c))
    IN  << row("python", "3.9", "Production Server 1", "High"),
           row("python", "3.11", "Development Server", "Medium"),
           row("nodejs", "16", "Web Application", "High"),
           row("ubuntu", "20.04", "Production Server 1", "High"),
           row("postgresql", "12", "Database Server", "Critical"),
           row("nginx", "1.20", "Load Balancer", "High") >>

----------------------------------------------------------------------------
(* The run of main *)

Idle ==
    /\ all_cycles = NonePayload
    /\ version = ""
    /\ info = NoneDict
    /\ status = UnknownStatus

Init ==
    /\ pc = "start"
    /\ Idle
    /\ today \in Instants
    /\ inventory = <<>>
    /\ cache = EmptyCache
    /\ requests = <<>>
    /\ results = <<>>
    /\ output = NoFile

\* --create-sample: create_sample_inventory, then main returns
CreateSampleInventory ==
    /\ pc = "start"
    /\ inventory' = SampleData
    /\ pc' = "done"
    /\ UNCHANGED <<all_cycles, version, info, today, status, cache, requests,
                   results, output>>

\* load_from_csv, and main's return when nothing was loaded
LoadFromCsv ==
    /\ pc = "start"
    /\ \E found \in BOOLEAN, rows \in Inventories :
          inventory' = IF found THEN rows ELSE <<>>
    /\ pc' = IF inventory' = <<>> THEN "done" ELSE "check"
    /\ UNCHANGED <<all_cycles, version, info, today, status, cache, requests,
                   results, output>>

\* item.get(...) gave None: .lower() or .strip() raises AttributeError
RaisesAttributeError(item) ==
    \/ Get(item, "product", PyStr("")).t # "str"
    \/ Get(item, "version", PyStr("")).t # "str"

\* One turn of the loop of check_all_eol_status: get_eol_status for the next
\* row, its find_best_match and get_product_info included. An AttributeError
\* leaves the loop and main.
CheckItem ==
    /\ pc = "check"
    /\ LET idx == Len(results) + 1
           item == inventory[idx]
       IN  IF RaisesAttributeError(item)
           THEN /\ pc' = "aborted"
                /\ UNCHANGED <<all_cycles, version, info, today, status, cache,
                               requests, results>>
           ELSE LET product == ItemProduct(item)
                    key == CacheKey(product, "")
                IN  /\ version' = ItemVersion(item)
                    /\ IF key \in DOMAIN cache
                       THEN /\ all_cycles' = cache[key]
                            /\ UNCHANGED <<cache, requests>>
                       ELSE \E outcome \in Outcomes :
                            /\ all_cycles' = FetchResult(outcome)
                            /\ cache' = CacheAfter(cache, key, outcome)
                            /\ requests' = Append(requests,
                                  [key |-> key, kind |-> outcome.kind, row |-> idx])
                    /\ info' = FindBestMatch(all_cycles', version')
                    /\ \E now \in Instants :
                          /\ ~Before(now, today)
                          /\ today' = now
                    /\ status' = EolStatus(info', today')
                    /\ results' = Append(results, Merge(item, status'))
                    /\ pc' = IF idx = Len(inventory) THEN "save" ELSE "check"
    /\ UNCHANGED <<inventory, output>>

\* save_results
SaveResults ==
    /\ pc = "save"
    /\ output' = IF results = <<>> THEN output ELSE WriteRows(results)
    /\ pc' = IF output'.state = "error" THEN "crashed" ELSE "summary"
    /\ UNCHANGED <<all_cycles, version, info, today, status, inventory, cache,
                   requests, results>>

\* print_summary, which only prints
PrintSummary ==
    /\ pc = "summary"
    /\ pc' = "done"
    /\ UNCHANGED <<all_cycles, version, info, today, status, inventory, cache,
                   requests, results, output>>

Next == CreateSampleInventory \/ LoadFromCsv \/ CheckItem \/ SaveResults \/ PrintSummary

Spec == Init /\ [][Next]_vars

----------------------------------------------------------------------------
(* find_best_match on its own, over every list and version of the bounds *)

InitMatch ==
    /\ pc = "call"
    /\ all_cycles \in MatchPayloads
    /\ version \in MatchVersions
    /\ info = NoneDict
    /\ status = UnknownStatus
    /\ today \in Instants
    /\ inventory = <<>>
    /\ cache = EmptyCache
    /\ requests = <<>>
    /\ results = <<>>
    /\ output = NoFile

FindBestMatchCall ==
    /\ pc = "call"
    /\ info' = FindBestMatch(all_cycles, version)
    /\ pc' = "matched"
    /\ UNCHANGED <<all_cycles, version, today, status, inventory, cache,
                   requests, results, output>>

NextMatch == FindBestMatchCall

SpecMatch == InitMatch /\ [][NextMatch]_vars

----------------------------------------------------------------------------
(* get_eol_status from the matched record on, over every record and instant *)

InitClassify ==
    /\ pc = "call"
    /\ all_cycles = NonePayload
    /\ version = ""
    /\ info \in ClassifyInfos
    /\ status = UnknownStatus
    /\ today \in Instants
    /\ inventory = <<>>
    /\ cache = EmptyCache
    /\ requests = <<>>
    /\ results = <<>>
    /\ output = NoFile

GetEolStatusCall ==
    /\ pc = "call"
    /\ status' = EolStatus(info, today)
    /\ pc' = "classified"
    /\ UNCHANGED <<all_cycles, version, info, today, inventory, cache,
                   requests, results, output>>

NextClassify == GetEolStatusCall

SpecClassify == InitClassify /\ [][NextClassify]_vars

----------------------------------------------------------------------------
(* Properties of find_best_match (SpecMatch) *)

Cycles == all_cycles.items

NonEmptyList == all_cycles.kind = "list" /\ Len(Cycles) > 0

ExactAt(i) == Str(Get(Cycles[i], "cycle", PyStr(""))) = version

\* cycle + "." is a prefix of version, or version + "." is a prefix of cycle
DotRelatedAt(i) ==
    LET c == Str(Get(Cycles[i], "cycle", PyStr("")))
    IN  \/ StartsWith(version, c \o ".")
        \/ StartsWith(c, version \o ".")

FirstOf(P(_)) == CHOOSE i \in 1..Len(Cycles) : P(i) /\ \A j \in 1..(i - 1) : ~P(j)

\* C1: when some record of a non-empty list has str(cycle) equal to the
\* version, find_best_match returns the first such record, also when a record
\* that prefix-matches the version stands earlier in the list.
C1_ExactMatchWins ==
    (pc = "matched" /\ NonEmptyList /\ \E i \in 1..Len(Cycles) : ExactAt(i))
        => info = SomeDict(Cycles[FirstOf(ExactAt)])

\* A prefix match stands first, the exact match second, and the second is returned.
C1_Witness ==
    /\ pc = "matched"
    /\ NonEmptyList
    /\ Len(Cycles) = 2
    /\ DotRelatedAt(1) /\ ~ExactAt(1)
    /\ ExactAt(2)
    /\ info = SomeDict(Cycles[2])

\* C9: when no record's cycle equals the version, find_best_match returns the
\* first record in list order whose cycle is dot-related to the version, and
\* none when there is no such record (or no list); a cycle that only shares
\* leading characters with the version is not returned.
C9_FirstDotPrefixOrNone ==
    (pc = "matched" /\ ~(NonEmptyList /\ \E i \in 1..Len(Cycles) : ExactAt(i)))
        => IF NonEmptyList /\ \E i \in 1..Len(Cycles) : DotRelatedAt(i)
           THEN info = SomeDict(Cycles[FirstOf(DotRelatedAt)])
           ELSE info = NoneDict

\* Version "3.10" against cycles "3.1" then "3": "3.1" is passed over, "3" returned.
C9_Witness ==
    /\ pc = "matched"
    /\ version = "3.10"
    /\ NonEmptyList
    /\ Len(Cycles) = 2
    /\ Str(Get(Cycles[1], "cycle", PyStr(""))) = "3.1"
    /\ Str(Get(Cycles[2], "cycle", PyStr(""))) = "3"
    /\ info = SomeDict(Cycles[2])

----------------------------------------------------------------------------
(* Properties of get_eol_status on a matched record (SpecClassify) *)

Classified == pc = "classified" /\ Truthy(info)

EolField == Get(info.val, "eol", PyNone)

SupportField == Get(info.val, "support", PyNone)

SupportIsFalse == SupportField = PyBool(FALSE)

\* The eol field is a string that strptime accepts
EolIsDate == EolField.t = "str" /\ Strptime(EolField.s).ok

EolDay == Strptime(EolField.s).day

\* C5: for a valid eol date D and support not false: D strictly before the
\* current calendar date gives is_eol = true and days_until_eol = 0; otherwise,
\* D equal to the current date included, is_eol = false and days_until_eol is
\* the whole-day difference of the two calendar dates, at any time of day.
C5_CalendarDayDifference ==
    (Classified /\ EolIsDate /\ ~SupportIsFalse)
        => IF EolDay < today.day
           THEN status.is_eol = PyBool(TRUE) /\ status.days_until_eol = PyInt(0)
           ELSE /\ status.is_eol = PyBool(FALSE)
                /\ status.days_until_eol = PyInt(EolDay - today.day)

\* The value of eol_date the eol rules give, as the claim lists them
ExpectedEolDate ==
    IF EolField = PyBool(TRUE) THEN "EOL"
    ELSE IF EolField = PyBool(FALSE) THEN "No EOL date set"
    ELSE IF EolField.t = "str" THEN EolField.s
    ELSE "Unknown"

PassedThrough ==
    /\ status.lts = Get(info.val, "lts", PyBool(FALSE))
    /\ status.latest_version = Get(info.val, "latest", PyStr("Unknown"))

\* C6: support = false gives is_eol = true, "End of Support", days_until_eol = 0,
\* the eol_date of the eol rules and lts/latest of the record, whatever the eol
\* field; any other support value never gives "End of Support".
C6_SupportOverride ==
    Classified =>
        IF SupportIsFalse
        THEN /\ status.is_eol = PyBool(TRUE)
             /\ status.support_status = PyStr("End of Support")
             /\ status.days_until_eol = PyInt(0)
             /\ status.eol_date = PyStr(ExpectedEolDate)
             /\ PassedThrough
        ELSE status.support_status # PyStr("End of Support")

\* support = false on a record whose eol date lies in the future
C6_Witness ==
    /\ Classified
    /\ SupportIsFalse
    /\ EolField = PyStr("2099-01-01")
    /\ status.is_eol = PyBool(TRUE)
    /\ status.days_until_eol = PyInt(0)
    /\ status.eol_date = PyStr("2099-01-01")

\* The label the claim gives for (is_eol, days_until_eol)
ExpectedLabel(is_eol, days) ==
    IF is_eol = PyBool(TRUE) THEN "End of Life"
    ELSE IF days = PyNone THEN "Actively Supported"
    ELSE IF days.n < 90 THEN "EOL Soon (<90 days)"
    ELSE IF days.n < 180 THEN "EOL Approaching (<6 months)"
    ELSE "Actively Supported"

\* C7: with support not false, support_status is the function of
\* (is_eol, days_until_eol) with the boundaries at 90 and 180 days.
C7_LabelFromDays ==
    (Classified /\ ~SupportIsFalse)
        => status.support_status =
               PyStr(ExpectedLabel(status.is_eol, status.days_until_eol))

\* Exactly 90 days left: "EOL Approaching", not "EOL Soon"
C7_Witness ==
    /\ Classified
    /\ ~SupportIsFalse
    /\ status.is_eol = PyBool(FALSE)
    /\ status.days_until_eol = PyInt(90)
    /\ status.support_status = PyStr("EOL Approaching (<6 months)")

\* C8: an eol string that is no valid date, with support not false, gives
\* eol_date = the raw string, is_eol = false, days_until_eol = null and
\* "Actively Supported".
C8_MalformedDateNotEol ==
    (Classified /\ EolField.t = "str" /\ ~Strptime(EolField.s).ok /\ ~SupportIsFalse)
        => /\ status.eol_date = PyStr(EolField.s)
           /\ status.is_eol = PyBool(FALSE)
           /\ status.days_until_eol = PyNone
           /\ status.support_status = PyStr("Actively Supported")

\* 30 February: the format matches and the date does not exist
C8_Witness ==
    /\ Classified
    /\ EolField = PyStr("2025-02-30")
    /\ ~SupportIsFalse
    /\ status.eol_date = PyStr("2025-02-30")
    /\ status.is_eol = PyBool(FALSE)

\* C10: every result for a matched record has a boolean is_eol; is_eol = true
\* implies days_until_eol = 0; support_status is "End of Life" or
\* "End of Support" exactly when is_eol = true; support_status is never "Unknown".
C10_ResultInvariant ==
    Classified =>
        /\ status.is_eol.t = "bool"
        /\ (status.is_eol.b => status.days_until_eol = PyInt(0))
        /\ (status.support_status \in {PyStr("End of Life"), PyStr("End of Support")})
              <=> status.is_eol.b
        /\ status.support_status # PyStr("Unknown")

\* A past eol date with support absent: end of life with 0 days
C10_Witness ==
    /\ Classified
    /\ EolField = PyStr("2020-01-01")
    /\ "support" \notin DOMAIN info.val
    /\ status.is_eol = PyBool(TRUE)
    /\ status.days_until_eol = PyInt(0)
    /\ status.support_status = PyStr("End of Life")

----------------------------------------------------------------------------
(* Properties of the batch (Spec) *)

DerivedFields ==
    <<"support_status", "eol_date", "is_eol", "days_until_eol", "lts", "latest_version">>

DerivedSet == {DerivedFields[i] : i \in 1..Len(DerivedFields)}

\* check_all_eol_status has returned
Checked == pc \in {"save", "summary", "crashed"} \/ (pc = "done" /\ results # <<>>)

\* The six derived fields of a result are the Unknown sentinel
IsUnknownResult(r) ==
    /\ DerivedSet \subseteq DOMAIN r
    /\ r["eol_date"] = PyStr("Unknown")
    /\ r["is_eol"] = PyStr("Unknown")
    /\ r["support_status"] = PyStr("Unknown")
    /\ r["days_until_eol"] = PyNone
    /\ r["lts"] = PyBool(FALSE)
    /\ r["latest_version"] = PyStr("Unknown")

\* No request up to row i brought a JSON value for the product of row i
LookupFailed(i) ==
    LET product == ItemProduct(inventory[i])
    IN  ~\E q \in 1..Len(requests) :
            /\ requests[q].key = product
            /\ requests[q].row <= i
            /\ requests[q].kind = "ok"

\* The payload of the last lookup holds no cycle that matches the last version
NoCycleMatches ==
    \/ ~NonEmptyList
    \/ \A i \in 1..Len(Cycles) : ~ExactAt(i) /\ ~DotRelatedAt(i)

\* Every row is processed, each giving one result in inventory order, and a
\* row whose lookup failed or whose version matches no cycle gets the sentinel.
OneResultPerRow ==
    /\ pc # "aborted"
    /\ Len(results) <= Len(inventory)
    /\ pc = "check" => Len(results) < Len(inventory)
    /\ Checked => Len(results) = Len(inventory)
    /\ \A i \in 1..Len(results) :
          /\ DerivedSet \subseteq DOMAIN results[i]
          /\ \A c \in DOMAIN inventory[i] \ DerivedSet : results[i][c] = inventory[i][c]
          /\ LookupFailed(i) => IsUnknownResult(results[i])
    /\ (Len(results) > 0 /\ NoCycleMatches) => IsUnknownResult(results[Len(results)])

\* C2: for any inventory and whatever each fetch does, check_all_eol_status
\* processes every row without aborting and gives one result per row, in
\* inventory order, and a row whose lookup failed or whose version matches no
\* cycle gets exactly the Unknown sentinel.
C2_OneResultPerRow == OneResultPerRow

\* The same for the inventories whose lines fill the product and version columns
C2_CompleteRows ==
    (\A i \in 1..Len(inventory) : ~RaisesAttributeError(inventory[i]))
        => OneResultPerRow

\* C3 as stated: no product is requested twice in a run, whatever the outcome
\* of its first request.
C3_OneFetchPerProduct ==
    \A i, j \in 1..Len(requests) :
        i < j => requests[i].key # requests[j].key

\* C3 amended: no product is requested again after a request for it brought
\* a JSON value, and a row causes a request exactly when no request before it
\* brought one for its product.
C3_NoFetchAfterSuccess ==
    /\ \A i, j \in 1..Len(requests) :
          (i < j /\ requests[i].key = requests[j].key) => requests[i].kind # "ok"
    /\ \A r \in 1..Len(results) :
          LET product == ItemProduct(inventory[r])
          IN  (\E q \in 1..Len(requests) : requests[q].row = r)
                  <=> ~\E q \in 1..Len(requests) :
                          /\ requests[q].key = product
                          /\ requests[q].row < r
                          /\ requests[q].kind = "ok"

\* Two rows of one product, one request: the second row came from the cache.
C3_Witness ==
    /\ Len(results) = 2
    /\ ItemProduct(inventory[1]) = ItemProduct(inventory[2])
    /\ Len(requests) = 1
    /\ requests[1].kind = "ok"
    /\ requests[1].row = 1

\* C4: once save_results has run, the output file is written, its columns end
\* with the six derived fields in their order, and every row holds every input
\* column of its inventory row with the value read.
C4_InputColumnsPreserved ==
    (pc \in {"summary", "crashed"} \/ (pc = "done" /\ results # <<>>))
        => /\ output.state = "written"
           /\ Len(output.rows) = Len(inventory)
           /\ SubSeq(output.header, Len(output.header) - 5, Len(output.header))
                 = DerivedFields
           /\ \A i \in 1..Len(inventory) :
                 \A c \in DOMAIN inventory[i] :
                    \E k \in 1..(Len(output.header) - 6) :
                        /\ output.header[k] = c
                        /\ output.rows[i][k] = inventory[i][c].s

====
